---- MODULE Spec2Model ----
(***************************************************************************)
(* dotlottie-player-light: the bundle/asset resolver (functions module)    *)
(* and the <dotlottie-player> custom element (component/index.ts).         *)
(*                                                                         *)
(* Representation                                                          *)
(*   - a file name or path is a sequence of tokens, "." being the token    *)
(*     that String.split('.') splits on: <<"a", ".", "png">> is "a.png";   *)
(*   - a data URI is the sequence <<"data:", mime, ";base64,", b64>>;      *)
(*   - an Error value is a record [message, status], status = Null when    *)
(*     the thrown value has no 'status' property;                          *)
(*   - engine frames are counted in hundredths of a frame (centiframes),   *)
(*     so that totalFrames * .99 is exact;                                 *)
(*   - _playerState.count is counted in halves (the code adds 0.5 or 1).   *)
(***************************************************************************)
EXTENDS Integers, Sequences, FiniteSets, TLC

\* A value that may be null or undefined is a sequence of length 0 or 1.
Null      == <<>>
Some(x)   == <<x>>
Get(o)    == o[1]

(***************************************************************************)
(* Bounds                                                                  *)
(***************************************************************************)
MaxAssets     == 2   \* assets in a document
MaxTimers     == 2   \* pending setTimeout(..., 0) callbacks
MaxRestarts   == 1   \* pending intermission callbacks
MaxPending    == 1   \* load() calls in flight
MaxLoopEvents == 6   \* counted loop completions
MaxSeekLen    == 3   \* characters of a seek argument
SampleFrames  == 100 \* totalFrames of the sample document
MaxIndex      == 2   \* how far next() and prev() move the index from 0

(***************************************************************************)
(* functions: handleErrors, getExt, getMimeFromExt, isAudio, isImage       *)
(***************************************************************************)

\* isServer(): no window.document.  The element only exists in a browser
\* document, where this is false.
isServer == FALSE

Err(msg) == [message |-> msg, status |-> Null]

\* new CustomError(statusText) with error.status = status
CustomError(statusText, status) ==
  [message |-> statusText, status |-> Some(status)]

handleErrors(err) ==
  [message |-> err.message,
   status  |-> IF err.status = Null
               THEN (IF isServer THEN 500 ELSE 400)
               ELSE Get(err.status)]

toLowerCase(tok) ==
  CASE tok = "PNG" -> "png"
    [] tok = "MP3" -> "mp3"
    [] OTHER -> tok

RECURSIVE LastDot(_, _)
\* index of the last "." token among the first n tokens, 0 when there is none
LastDot(str, n) ==
  IF n = 0 THEN 0
  ELSE IF str[n] = "." THEN n ELSE LastDot(str, n - 1)

RECURSIVE Concat(_)
\* the tokens of a sequence joined into one lower-cased piece (a sequence)
Concat(s) == IF s = <<>> THEN <<>> ELSE <<toLowerCase(Head(s))>> \o Concat(Tail(s))

\* str.split('.').pop()?.toLowerCase() ?? '' : the tokens after the last "."
\* (the whole string when it holds none), lower-cased
getExt(str) ==
  Concat(SubSeq(str, LastDot(str, Len(str)) + 1, Len(str)))

getMimeFromExt(ext) ==
  CASE ext = <<"svg">> -> "image/svg+xml"
    [] ext = <<"svg+xml">> -> "image/svg+xml"
    [] ext = <<"jpg">> -> "image/jpeg"
    [] ext = <<"jpeg">> -> "image/jpeg"
    [] ext = <<"png">> -> "image/png"
    [] ext = <<"gif">> -> "image/gif"
    [] ext = <<"webp">> -> "image/webp"
    [] ext = <<"mp3">> -> "audio/mp3"
    [] ext = <<"mpeg">> -> "audio/mpeg"
    [] ext = <<"wav">> -> "audio/wav"
    [] OTHER -> ""

\* An asset: has = the fields present ('f' in asset), p/e/u their values,
\* inlined = how many times the inlining body (lines 241-243) ran on it.
AssetFields == {"w", "h", "p", "e", "u", "id", "xt"}

isAudio(asset) ==
  /\ "h" \notin asset.has
  /\ "w" \notin asset.has
  /\ "p" \in asset.has
  /\ "e" \in asset.has
  /\ "u" \in asset.has
  /\ "id" \in asset.has

isImage(asset) ==
  /\ "w" \in asset.has
  /\ "h" \in asset.has
  /\ "xt" \notin asset.has
  /\ "p" \in asset.has

\* btoa(bytes): the base64 text of an entry's bytes (entries hold short
\* ASCII contents)
btoa(u8) ==
  CASE u8 = "img1" -> "aW1nMQ=="
    [] u8 = "snd1" -> "c25kMQ=="
    [] u8 = "" -> ""
    [] OTHER -> "Pz8/"

IsDataURI(p) == Len(p) = 4 /\ p[1] = "data:" /\ p[3] = ";base64,"

\* the archive entry name `${type}/${asset.p}`
EntryName(type, p) == <<type, "/">> \o p

\* resolveOne without line 243 (asset.u = ''): sensitivity of C8
resolveOne_KeepsU(unzipped, asset) ==
  IF ~isAudio(asset) /\ ~isImage(asset) THEN asset
  ELSE
    LET type == IF isImage(asset) THEN "images" ELSE "audio"
        key  == EntryName(type, asset.p)
    IN  IF key \notin DOMAIN unzipped.media THEN asset
        ELSE [asset EXCEPT
                !.p = <<"data:", getMimeFromExt(getExt(asset.p)), ";base64,",
                        btoa(unzipped.media[key])>>,
                !.e = 1,
                !.has = @ \cup {"e", "u"},
                !.inlined = @ + 1]

\* resolveOne looking in the other folder when the asset's own has no entry:
\* sensitivity of C27
resolveOne_AnyFolder(unzipped, asset) ==
  IF ~isAudio(asset) /\ ~isImage(asset) THEN asset
  ELSE
    LET type  == IF isImage(asset) THEN "images" ELSE "audio"
        other == IF isImage(asset) THEN "audio" ELSE "images"
        key   == IF EntryName(type, asset.p) \in DOMAIN unzipped.media
                 THEN EntryName(type, asset.p) ELSE EntryName(other, asset.p)
    IN  IF key \notin DOMAIN unzipped.media THEN asset
        ELSE [asset EXCEPT
                !.p = <<"data:", getMimeFromExt(getExt(asset.p)), ";base64,",
                        btoa(unzipped.media[key])>>,
                !.e = 1,
                !.u = "",
                !.has = @ \cup {"e", "u"},
                !.inlined = @ + 1]

\* lines 224-247 for one asset: unzipped.media maps entry names to bytes
resolveOne(unzipped, asset) ==
  IF ~isAudio(asset) /\ ~isImage(asset) THEN asset
  ELSE
    LET type == IF isImage(asset) THEN "images" ELSE "audio"
        key  == EntryName(type, asset.p)
    IN  IF key \notin DOMAIN unzipped.media THEN asset
        ELSE [asset EXCEPT
                !.p = <<"data:", getMimeFromExt(getExt(asset.p)), ";base64,",
                        btoa(unzipped.media[key])>>,
                !.e = 1,
                !.u = "",
                !.has = @ \cup {"e", "u"},
                !.inlined = @ + 1]

\* resolveAssets answering before any asset was rewritten: sensitivity of C15
resolveAssets_NotAwaited(unzipped, assets) == assets

\* resolveAssets(unzipped, assets): assets = Null when the document has no
\* assets array; the assets are mutated in place, so the result is the list
\* as it stands once the returned promise resolves
resolveAssets(unzipped, assets) ==
  IF assets = Null THEN assets
  ELSE Some([i \in 1..Len(Get(assets)) |->
               resolveOne(unzipped, Get(assets)[i])])

(***************************************************************************)
(* functions: getManifest, getLottieJSON, getAnimationData                 *)
(*                                                                         *)
(* An unzipped archive is [manifest, animations, media]:                   *)
(*   manifest   Null (no 'manifest.json' entry), or the parsed JSON of the *)
(*              entry, [animations]: Null without an 'animations' key,     *)
(*              else the list of ids;                                      *)
(*   animations the parsed 'animations/<id>.json' entries, by id;          *)
(*   media      the 'images/...' and 'audio/...' entries, by entry name.   *)
(* A document is [fields, assets, frames, renders]: the mandatory fields   *)
(* it has, its assets array (Null when it has none), floor(op - ip), and   *)
(* whether the engine can set it up.                                       *)
(* A result is [ok |-> TRUE, ...] or [ok |-> FALSE, err |-> Error].        *)
(***************************************************************************)
VARIABLE td   \* whether the runtime has TextDecoder (fflate's `td`)

Throw(e) == [ok |-> FALSE, err |-> e]

\* strFromU8(undefined) followed by JSON.parse: with TextDecoder the decode of
\* undefined is '' and JSON.parse('') throws a SyntaxError; without it the
\* fallback decoder reads a property of undefined and throws a TypeError
MissingEntryError ==
  IF td THEN Err("Unexpected end of JSON input")
        ELSE Err("Cannot read properties of undefined")

\* getManifest without the length test of lines 179-180: sensitivity of C7
getManifest_NoLengthCheck(unzipped) ==
  IF unzipped.manifest = Null THEN Throw(MissingEntryError)
  ELSE IF Get(unzipped.manifest).animations = Null
       THEN Throw(Err("Manifest not found"))
  ELSE [ok |-> TRUE, manifest |-> Get(unzipped.manifest)]

getManifest(unzipped) ==
  IF unzipped.manifest = Null THEN Throw(MissingEntryError)
  ELSE IF Get(unzipped.manifest).animations = Null
       THEN Throw(Err("Manifest not found"))
  ELSE IF Len(Get(Get(unzipped.manifest).animations)) = 0
       THEN Throw(Err("No animations listed in manifest"))
  ELSE [ok |-> TRUE, manifest |-> Get(unzipped.manifest)]

\* the for loop of getLottieJSON over the manifest's ids, lines 160-165: it
\* throws at the first id without an 'animations/<id>.json' entry, and
\* otherwise collects the documents with their assets resolved
ParseAnimations(unzipped, ids) ==
  IF \E i \in 1..Len(ids) : ids[i] \notin DOMAIN unzipped.animations
  THEN Throw(MissingEntryError)
  ELSE [ok |-> TRUE,
        data |-> [i \in 1..Len(ids) |->
                    [unzipped.animations[ids[i]] EXCEPT
                       !.assets = resolveAssets(unzipped, @)]]]

\* resp.zip = Null when the bytes are no archive (unzip rejects)
getLottieJSON(resp) ==
  IF resp.zip = Null THEN Throw(Err("invalid zip data"))
  ELSE
    LET unzipped == Get(resp.zip)
        m == getManifest(unzipped)
    IN  IF ~m.ok THEN m
        ELSE LET d == ParseAnimations(unzipped, Get(m.manifest.animations))
             IN  IF ~d.ok THEN d
                 ELSE [ok |-> TRUE, data |-> d.data, manifest |-> m.manifest]

\* The try block of getAnimationData, lines 90-125.  An input is
\*   [kind |-> "invalid"]          falsy, or neither string nor object
\*   [kind |-> "object", value]    a document
\*   [kind |-> "array", value]     an array of documents
\*   [kind |-> "url", url, resp]   a string; resp is what fetch gives for it:
\*                                 Null when fetch itself rejects, else
\*                                 [ok, status, statusText, json, zip] with
\*                                 json the document result.json() parses
\*                                 (Null: not JSON) and zip the archive
TryGetAnimationData(input) ==
  IF input.kind = "invalid" THEN Throw(Err("Broken file or invalid file format"))
  ELSE IF input.kind = "object"
       THEN [ok |-> TRUE, animations |-> <<input.value>>, manifest |-> Null,
             isDotLottie |-> Null]
  ELSE IF input.kind = "array"
       THEN [ok |-> TRUE, animations |-> input.value, manifest |-> Null,
             isDotLottie |-> Null]
  ELSE IF input.resp = Null THEN Throw(Err("Failed to fetch"))
  ELSE IF ~Get(input.resp).ok
       THEN Throw(CustomError(Get(input.resp).statusText, Get(input.resp).status))
  ELSE IF getExt(input.url) = <<"json">>
       THEN IF Get(input.resp).json = Null
            THEN Throw(Err("Unexpected token in JSON"))
            ELSE [ok |-> TRUE, animations |-> <<Get(Get(input.resp).json)>>,
                  manifest |-> Null, isDotLottie |-> Null]
  ELSE LET r == getLottieJSON(Get(input.resp))
       IN  IF ~r.ok THEN r
           ELSE [ok |-> TRUE, animations |-> r.data,
                 manifest |-> Some(r.manifest), isDotLottie |-> Some(TRUE)]

\* whether the call reaches `await fetch(input)` (line 103): only a string
\* gets past the returns of lines 90-101
fetches(input) == input.kind = "url"

\* getAnimationData answering animations: null for every input: sensitivity
\* of C11
getAnimationData_DropsData(input) ==
  LET r == TryGetAnimationData(input)
  IN  [animations |-> Null, manifest |-> Null, isDotLottie |-> Null,
       logged |-> IF r.ok THEN <<>> ELSE <<handleErrors(r.err).message>>,
       fetched |-> fetches(input)]

\* getAnimationData(input): the catch of lines 127-133 logs the reduced
\* message and answers animations: null; logged = the console.error lines,
\* fetched = whether fetch was called
getAnimationData(input) ==
  LET r == TryGetAnimationData(input)
  IN  IF r.ok THEN [animations |-> Some(r.animations), manifest |-> r.manifest,
                    isDotLottie |-> r.isDotLottie, logged |-> <<>>,
                    fetched |-> fetches(input)]
      ELSE [animations |-> Null, manifest |-> Null, isDotLottie |-> Null,
            logged |-> <<handleErrors(r.err).message>>,
            fetched |-> fetches(input)]

(***************************************************************************)
(* component: state                                                        *)
(***************************************************************************)
VARIABLES
  shadowRoot,        \* whether the element has its render root
  currentState,      \* this.currentState
  playerState,       \* this._playerState: [prev, count], count in halves
  lottieInstance,    \* this._lottieInstance, NoInstance when null
  seeker,            \* this._seeker
  animations,        \* this._animations
  currentAnimation,  \* this._currentAnimation
  errorMessage,      \* this._errorMessage
  count,             \* this.count, 0 when unset
  mode,              \* this.mode
  loop,              \* this.loop
  direction,         \* this.direction
  autoplay,          \* this.autoplay
  timers,            \* pending setTimeout(..., 0) state updates, oldest first
  restarts,          \* pending setTimeout(play, intermission) callbacks
  events,            \* the events dispatched by the last step, in order
  hidden,            \* document.hidden
  pending,           \* the sources of the load() calls awaiting their data
  logged,            \* what the last step wrote with console.error
  loadError,         \* handleErrors(err) of the last catch in load()
  lastCall,          \* the last operation run and its argument
  userCmd,           \* the last playback command the user gave
  loopEvents,        \* loop completions counted since the counter was reset
  src                \* this.src: Null when unset, else Some(source)

compVars == <<shadowRoot, currentState, playerState, lottieInstance, seeker,
              animations, currentAnimation, errorMessage, count, mode, loop,
              direction, autoplay, timers, restarts, events, logged, loadError>>
vars == <<td, src, compVars, hidden, pending, lastCall, userCmd, loopEvents>>

Mandatory == {"v", "ip", "op", "layers", "fr", "w", "h"}

\* the engine's AnimationItem as the component uses it; frames in centiframes
NoInstance ==
  [isNull |-> TRUE, isLoaded |-> FALSE, destroyed |-> FALSE,
   listeners |-> FALSE, isPaused |-> TRUE, playDirection |-> 1,
   currentFrame |-> 0, firstFrame |-> 0, totalFrames |-> 0, loop |-> FALSE]

\* the component and what its methods touch, as one record
This ==
  [shadowRoot |-> shadowRoot, currentState |-> currentState,
   playerState |-> playerState, lottieInstance |-> lottieInstance,
   seeker |-> seeker, animations |-> animations,
   currentAnimation |-> currentAnimation, errorMessage |-> errorMessage,
   count |-> count, mode |-> mode, loop |-> loop, direction |-> direction,
   autoplay |-> autoplay, timers |-> timers, restarts |-> restarts,
   events |-> <<>>, logged |-> <<>>, loadError |-> loadError]

Becomes(t) ==
  /\ shadowRoot' = t.shadowRoot
  /\ currentState' = t.currentState
  /\ playerState' = t.playerState
  /\ lottieInstance' = t.lottieInstance
  /\ seeker' = t.seeker
  /\ animations' = t.animations
  /\ currentAnimation' = t.currentAnimation
  /\ errorMessage' = t.errorMessage
  /\ count' = t.count
  /\ mode' = t.mode
  /\ loop' = t.loop
  /\ direction' = t.direction
  /\ autoplay' = t.autoplay
  /\ timers' = t.timers
  /\ restarts' = t.restarts
  /\ events' = t.events
  /\ logged' = t.logged
  /\ loadError' = t.loadError

dispatchEvent(t, e) == [t EXCEPT !.events = Append(@, e)]

\* setTimeout(() => { this.currentState = s }, 0)
setTimeout0(t, s) == [t EXCEPT !.timers = Append(@, s)]

Truthy(s) == s # ""

(***************************************************************************)
(* component: play, pause, stop, _freeze                                   *)
(***************************************************************************)
play(t) ==
  IF t.lottieInstance.isNull THEN t
  ELSE
    LET t1 == IF Truthy(t.currentState)
              THEN [t EXCEPT !.playerState.prev = t.currentState] ELSE t
        t2 == [t1 EXCEPT !.lottieInstance.isPaused = FALSE]
    IN  dispatchEvent(setTimeout0(t2, "playing"), "play")

pause(t) ==
  IF t.lottieInstance.isNull THEN t
  ELSE
    LET t1 == IF Truthy(t.currentState)
              THEN [t EXCEPT !.playerState.prev = t.currentState] ELSE t
        t2 == [t1 EXCEPT !.lottieInstance.isPaused = TRUE]
    IN  dispatchEvent(setTimeout0(t2, "paused"), "pause")

\* stop without line 491 (this._playerState.count = 0): sensitivity of C26
stop_KeepsCount(t) ==
  IF t.lottieInstance.isNull THEN t
  ELSE
    LET t1 == IF Truthy(t.currentState)
              THEN [t EXCEPT !.playerState.prev = t.currentState] ELSE t
        t2 == [t1 EXCEPT !.lottieInstance.isPaused = TRUE,
                         !.lottieInstance.currentFrame = 0]
    IN  dispatchEvent(setTimeout0(t2, "stopped"), "stop")

stop(t) ==
  IF t.lottieInstance.isNull THEN t
  ELSE
    LET t1 == IF Truthy(t.currentState)
              THEN [t EXCEPT !.playerState.prev = t.currentState] ELSE t
        t2 == [t1 EXCEPT !.playerState.count = 0,
                         !.lottieInstance.isPaused = TRUE,
                         !.lottieInstance.currentFrame = 0]
    IN  dispatchEvent(setTimeout0(t2, "stopped"), "stop")

_freeze(t) ==
  IF t.lottieInstance.isNull THEN t
  ELSE
    LET t1 == IF Truthy(t.currentState)
              THEN [t EXCEPT !.playerState.prev = t.currentState] ELSE t
        t2 == [t1 EXCEPT !.lottieInstance.isPaused = TRUE]
    IN  dispatchEvent(setTimeout0(t2, "frozen"), "freeze")

(***************************************************************************)
(* component: seek                                                         *)
(* A seek argument is value.toString(), a sequence of characters.          *)
(***************************************************************************)
Digits == {"0", "1", "2", "3", "4", "5", "6", "7", "8", "9"}

DigitValue(c) ==
  CASE c = "0" -> 0 [] c = "1" -> 1 [] c = "2" -> 2 [] c = "3" -> 3
    [] c = "4" -> 4 [] c = "5" -> 5 [] c = "6" -> 6 [] c = "7" -> 7
    [] c = "8" -> 8 [] c = "9" -> 9

AllDigits(str) == \A i \in 1..Len(str) : str[i] \in Digits

\* match with the pattern /([0-9]+)(%?)$/, not anchored at the start:
\* sensitivity of C10
match_Unanchored(str) ==
  LET body == IF str # <<>> /\ str[Len(str)] = "%"
              THEN SubSeq(str, 1, Len(str) - 1) ELSE str
      pct  == IF str # <<>> /\ str[Len(str)] = "%" THEN "%" ELSE ""
      from == {k \in 1..Len(body) : AllDigits(SubSeq(body, k, Len(body)))}
  IN  IF from = {} THEN Null
      ELSE LET k == CHOOSE i \in from : \A j \in from : i <= j
           IN  Some(<<SubSeq(body, k, Len(body)), pct>>)

\* value.toString().match(/^([0-9]+)(%?)$/): Null, or the two groups
match(str) ==
  IF Len(str) >= 1 /\ AllDigits(str)
  THEN Some(<<str, "">>)
  ELSE IF Len(str) >= 2 /\ str[Len(str)] = "%"
          /\ AllDigits(SubSeq(str, 1, Len(str) - 1))
       THEN Some(<<SubSeq(str, 1, Len(str) - 1), "%">>)
       ELSE Null

RECURSIVE Number(_)
\* Number(matches[1]) of a string of decimal digits
Number(str) ==
  IF str = <<>> THEN 0
  ELSE 10 * Number(SubSeq(str, 1, Len(str) - 1)) + DigitValue(str[Len(str)])

\* seekFrame rounding the percentage up instead of down: sensitivity of C9
seekFrame_Ceil(totalFrames, matches) ==
  IF matches[2] = "%"
  THEN (totalFrames * Number(matches[1]) + 99) \div 100
  ELSE Number(matches[1])

\* the frame of lines 528-531
seekFrame(totalFrames, matches) ==
  IF matches[2] = "%"
  THEN (totalFrames * Number(matches[1])) \div 100
  ELSE Number(matches[1])

\* seek stopping through the component's pause() instead of the engine's:
\* sensitivity of C23
seek_PausesPlayer(t, value) ==
  IF t.lottieInstance.isNull THEN t
  ELSE
    LET matches == match(value)
    IN  IF matches = Null THEN t
        ELSE
          LET frame == seekFrame(t.lottieInstance.totalFrames, Get(matches))
              t1 == [t EXCEPT !.seeker = frame]
          IN  IF \/ t1.currentState = "playing"
                 \/ /\ t1.currentState = "frozen"
                    /\ t1.playerState.prev = "playing"
              THEN [t1 EXCEPT !.lottieInstance.currentFrame = frame * 100,
                              !.lottieInstance.isPaused = FALSE,
                              !.currentState = "playing"]
              ELSE pause([t1 EXCEPT !.lottieInstance.currentFrame = frame * 100])

seek(t, value) ==
  IF t.lottieInstance.isNull THEN t
  ELSE
    LET matches == match(value)
    IN  IF matches = Null THEN t
        ELSE
          LET frame == seekFrame(t.lottieInstance.totalFrames, Get(matches))
              t1 == [t EXCEPT !.seeker = frame]
          IN  IF \/ t1.currentState = "playing"
                 \/ /\ t1.currentState = "frozen"
                    /\ t1.playerState.prev = "playing"
              THEN \* goToAndPlay(frame, true)
                   [t1 EXCEPT !.lottieInstance.currentFrame = frame * 100,
                              !.lottieInstance.isPaused = FALSE,
                              !.currentState = "playing"]
              ELSE \* goToAndStop(frame, true); pause()
                   [t1 EXCEPT !.lottieInstance.currentFrame = frame * 100,
                              !.lottieInstance.isPaused = TRUE]

RECURSIVE toString(_)
\* the decimal digits of a non-negative integer
toString(n) ==
  LET d == CHOOSE c \in Digits : DigitValue(c) = n % 10
  IN  IF n < 10 THEN <<d>> ELSE toString(n \div 10) \o <<d>>

\* Math.floor((Number(target.value) / 100) * totalFrames) in double
\* arithmetic: the exact quotient's floor, or one less when the quotient is a
\* whole number that the division by 100 rounds below (29 / 100 * 100)
sliderFrames(value, totalFrames) ==
  LET q == (value * totalFrames) \div 100
  IN  IF (value * totalFrames) % 100 = 0 /\ value % 100 # 0 /\ q > 0
      THEN {q, q - 1} ELSE {q}

\* _handleSeekChange with target.value = the slider's value, 0..100, and
\* frame the number line 425 computes from it
_handleSeekChange(t, frame) ==
  IF t.lottieInstance.isNull THEN t
  ELSE seek(t, toString(frame))

(***************************************************************************)
(* component: setDirection, setLooping, the engine's listeners             *)
(***************************************************************************)
setDirection(t, value) ==
  IF t.lottieInstance.isNull THEN t
  ELSE [t EXCEPT !.direction = value, !.lottieInstance.playDirection = value]

\* setLooping without the engine's setLoop(value): sensitivity of C22
setLooping_ComponentOnly(t, value) ==
  IF ~t.lottieInstance.isNull THEN [t EXCEPT !.loop = value] ELSE t

setLooping(t, value) ==
  IF ~t.lottieInstance.isNull
  THEN [t EXCEPT !.loop = value, !.lottieInstance.loop = value]
  ELSE t

\* the 'enterFrame' listener: currentFrame is in centiframes, so
\* floor(currentFrame / totalFrames * 100) is currentFrame \div totalFrames
enterFrame(t) ==
  IF ~t.lottieInstance.isNull
  THEN dispatchEvent(
         [t EXCEPT !.seeker = t.lottieInstance.currentFrame
                                \div t.lottieInstance.totalFrames],
         "frame")
  ELSE t

\* the 'complete' listener
complete(t) == dispatchEvent([t EXCEPT !.currentState = "completed"], "complete")

\* what line 330-331 adds to _playerState.count, in halves
loopIncrement(m) == IF m = "bounce" THEN 2 ELSE 1

\* the restart issued at once instead of after the intermission: sensitivity
\* of C12
setTimeoutPlay_AtOnce(t) == [t EXCEPT !.lottieInstance.isPaused = FALSE]

\* setTimeout(() => this._lottieInstance?.play(), this.intermission)
setTimeoutPlay(t) == [t EXCEPT !.restarts = @ + 1]

loopComplete(t) ==
  IF t.lottieInstance.isNull THEN t
  ELSE
    LET firstFrame    == t.lottieInstance.firstFrame
        totalFrames   == t.lottieInstance.totalFrames
        playDirection == t.lottieInstance.playDirection
        t1 == IF t.count # 0
              THEN [t EXCEPT !.playerState.count = @ + loopIncrement(t.mode)]
              ELSE t
    IN  IF t.count # 0 /\ t1.playerState.count >= 2 * t.count
        THEN dispatchEvent(
               [setLooping(t1, FALSE) EXCEPT !.currentState = "completed"],
               "complete")
        ELSE
          LET t2 == dispatchEvent(t1, "loop")
          IN  IF t2.mode = "bounce"
              THEN setTimeoutPlay(
                     [t2 EXCEPT
                        !.lottieInstance.currentFrame =
                           IF playDirection = -1 THEN firstFrame
                           ELSE totalFrames * 99,
                        !.lottieInstance.isPaused = TRUE,
                        !.lottieInstance.playDirection = playDirection * (-1)])
              ELSE setTimeoutPlay(
                     [t2 EXCEPT
                        !.lottieInstance.currentFrame =
                           IF playDirection = -1 THEN totalFrames * 99
                           ELSE firstFrame,
                        !.lottieInstance.isPaused = TRUE])

(***************************************************************************)
(* component: load                                                         *)
(***************************************************************************)
\* _isLottie without 'layers' among the mandatory fields: sensitivity of C4
_isLottie_NoLayers(json) == \A field \in Mandatory \ {"layers"} : field \in json.fields

_isLottie(json) == \A field \in Mandatory : field \in json.fields

\* Lottie.loadAnimation({...this._getOptions(), animationData}):
\* animationData = Null when animations[this._currentAnimation] is undefined,
\* and the engine then sets nothing up
loadAnimation(t, animationData) ==
  IF animationData = Null
  THEN [NoInstance EXCEPT !.isNull = FALSE, !.loop = t.loop]
  ELSE [isNull |-> FALSE, isLoaded |-> TRUE, destroyed |-> FALSE,
        listeners |-> FALSE, isPaused |-> ~t.autoplay, playDirection |-> 1,
        currentFrame |-> 0, firstFrame |-> 0,
        totalFrames |-> Get(animationData).frames, loop |-> t.loop]

\* _addEventListeners
_addEventListeners(t) ==
  IF t.lottieInstance.isNull THEN t
  ELSE [t EXCEPT !.lottieInstance.listeners = TRUE]

\* the catch of load, lines 263-270
loadCatch(t, err) ==
  dispatchEvent(
    [t EXCEPT !.errorMessage = handleErrors(err).message,
              !.loadError = Some(handleErrors(err)),
              !.currentState = "error"],
    "error")

\* lines 272-283, after the try
loadSetup(t) ==
  LET t1 == setDirection(_addEventListeners(t), t.direction)
  IN  IF t1.autoplay
      THEN play(IF t1.direction = -1 THEN seek(t1, <<"9", "9", "%">>) ELSE t1)
      ELSE t1

\* load(src) from the point where getAnimationData(src) has answered
loadResume(t, input) ==
  LET r  == getAnimationData(input)
      t0 == [t EXCEPT !.logged = r.logged]
  IN  IF \/ r.animations = Null
         \/ \E i \in 1..Len(Get(r.animations)) : ~_isLottie(Get(r.animations)[i])
      THEN loadCatch(t0, Err("Broken or corrupted file"))
      ELSE
        LET anims == Get(r.animations)
            t1 == [t0 EXCEPT !.animations = anims,
                             !.lottieInstance.destroyed =
                                IF t0.lottieInstance.isNull THEN @ ELSE TRUE]
            animationData ==
              IF t1.currentAnimation + 1 \in DOMAIN anims
              THEN Some(anims[t1.currentAnimation + 1]) ELSE Null
        IN  IF animationData # Null /\ ~Get(animationData).renders
            THEN loadCatch(t1, Err("Cannot read properties of undefined"))
            ELSE loadSetup([t1 EXCEPT
                              !.lottieInstance = loadAnimation(t1, animationData)])

(***************************************************************************)
(* component: destroy, reload, togglePlay, next, prev                      *)
(***************************************************************************)
\* destroy(); this.remove() leaves the shadow root on the element
destroy(t) ==
  IF t.lottieInstance.isNull THEN t
  ELSE dispatchEvent([t EXCEPT !.currentState = "destroyed",
                               !.lottieInstance = NoInstance],
                     "destroyed")

\* whether reload() gets as far as its call of load(this.src)
reloads(t, source) == ~t.lottieInstance.isNull /\ source # Null

\* reload() up to that call
reload(t) ==
  IF t.lottieInstance.isNull THEN t
  ELSE [t EXCEPT !.lottieInstance.destroyed = TRUE]

togglePlay(t) ==
  IF t.lottieInstance.isNull THEN t
  ELSE IF t.currentState = "playing" THEN pause(t)
  ELSE IF t.currentState = "completed"
       THEN LET t1 == [t EXCEPT !.currentState = "playing"]
            IN  IF t1.mode = "bounce"
                THEN \* goToAndPlay(currentFrame, true)
                     [setDirection(t1, -t.lottieInstance.playDirection)
                        EXCEPT !.lottieInstance.isPaused = FALSE]
                ELSE IF t.lottieInstance.playDirection = -1
                THEN \* goToAndPlay(totalFrames, true)
                     [t1 EXCEPT !.lottieInstance.isPaused = FALSE,
                                !.lottieInstance.currentFrame =
                                   t.lottieInstance.totalFrames * 100]
                ELSE \* goToAndPlay(0, true)
                     [t1 EXCEPT !.lottieInstance.isPaused = FALSE,
                                !.lottieInstance.currentFrame = 0]
  ELSE play(t)

\* _switchInstance.  this._animations is unset until a load succeeds (and no
\* load stores an empty list), and indexing it then throws; an index outside
\* the list gives the engine no animationData; a document the engine cannot
\* set up makes loadAnimation throw, after the old instance was destroyed.
_switchInstance(t) ==
  IF t.animations = <<>> THEN t
  ELSE
    LET t1 == [t EXCEPT !.lottieInstance.destroyed =
                           IF t.lottieInstance.isNull THEN @ ELSE TRUE]
        animationData ==
          IF t.currentAnimation + 1 \in DOMAIN t.animations
          THEN Some(t.animations[t.currentAnimation + 1]) ELSE Null
    IN  IF animationData # Null /\ ~Get(animationData).renders THEN t1
        ELSE [_addEventListeners(
                [t1 EXCEPT !.lottieInstance = loadAnimation(t1, animationData)])
                EXCEPT !.lottieInstance.currentFrame = 0,
                       !.lottieInstance.isPaused = FALSE,
                       !.currentState = "playing"]

next(t) == _switchInstance([t EXCEPT !.currentAnimation = @ + 1])

prev(t) == _switchInstance([t EXCEPT !.currentAnimation = @ - 1])

(***************************************************************************)
(* Steps                                                                   *)
(***************************************************************************)
\* a step that ran operation op with argument arg and left the component as t
Step(t, op, arg, counted) ==
  /\ Len(t.timers) <= MaxTimers
  /\ t.restarts <= MaxRestarts
  /\ Becomes(t)
  /\ lastCall' = [op |-> op, arg |-> arg]
  /\ loopEvents' = IF t.playerState.count = 0 THEN 0
                   ELSE IF counted THEN loopEvents + 1 ELSE loopEvents

\* createRenderRoot on connection: the element gets its shadow root
Connect ==
  /\ ~shadowRoot
  /\ Step([This EXCEPT !.shadowRoot = TRUE], "connect", <<>>, FALSE)
  /\ UNCHANGED <<td, src, hidden, pending, userCmd>>

\* load(src) up to its await of getAnimationData(src)
LoadCall(sources) ==
  \E input \in sources :
    /\ shadowRoot
    /\ Cardinality(pending) < MaxPending
    /\ input \notin pending
    /\ pending' = pending \cup {input}
    /\ Step(This, "load", <<>>, FALSE)
    /\ UNCHANGED <<td, src, hidden, userCmd>>

\* the rest of load(src), once the data has arrived
LoadResume ==
  \E input \in pending :
    /\ pending' = pending \ {input}
    /\ Step(loadResume(This, input), "loadResume", <<input>>, FALSE)
    /\ UNCHANGED <<td, src, hidden, userCmd>>

Play ==
  /\ Step(play(This), "play", <<>>, FALSE)
  /\ userCmd' = "play"
  /\ UNCHANGED <<td, src, hidden, pending>>

Pause ==
  /\ Step(pause(This), "pause", <<>>, FALSE)
  /\ userCmd' = "pause"
  /\ UNCHANGED <<td, src, hidden, pending>>

Stop ==
  /\ Step(stop(This), "stop", <<>>, FALSE)
  /\ userCmd' = "stop"
  /\ UNCHANGED <<td, src, hidden, pending>>

Seek(values) ==
  \E value \in values :
    /\ Step(seek(This, value), "seek", value, FALSE)
    /\ UNCHANGED <<td, src, hidden, pending, userCmd>>

\* @mousedown=${this._freeze} on the seeker
SeekerMouseDown ==
  /\ Step(_freeze(This), "_freeze", <<>>, FALSE)
  /\ UNCHANGED <<td, src, hidden, pending, userCmd>>

\* @change=${this._handleSeekChange} on the seeker
SeekerChange(values) ==
  \E value \in values :
    \E frame \in sliderFrames(value, lottieInstance.totalFrames) :
      /\ Step(_handleSeekChange(This, frame), "_handleSeekChange", <<>>, FALSE)
      /\ UNCHANGED <<td, src, hidden, pending, userCmd>>

\* _onVisibilityChange as a method: self is the object it runs on, and
\* documentHidden is document.hidden as the event is delivered
_onVisibilityChange(t, self, documentHidden) ==
  IF documentHidden /\ self.currentState = "playing" THEN _freeze(t)
  ELSE IF self.currentState = "frozen" THEN play(t)
  ELSE t

\* The document's 'visibilitychange'.  connectedCallback registers the method
\* itself (line 753), unbound, so the listener runs with the document as
\* `this`, and document.currentState is undefined.
VisibilityChange ==
  /\ hidden' = ~hidden
  /\ Step(_onVisibilityChange(This, [currentState |-> ""], ~hidden),
          "_onVisibilityChange", <<>>, FALSE)
  /\ UNCHANGED <<td, src, pending, userCmd>>

\* the IntersectionObserver callback of firstUpdated
Intersection ==
  \E isIntersecting \in BOOLEAN :
    /\ shadowRoot
    /\ Step(IF isIntersecting
            THEN (IF ~hidden /\ currentState = "frozen" THEN play(This) ELSE This)
            ELSE (IF currentState = "playing" THEN _freeze(This) ELSE This),
            "intersection", <<>>, FALSE)
    /\ UNCHANGED <<td, src, hidden, pending, userCmd>>

\* the oldest setTimeout(..., 0) callback runs
TimerFire ==
  /\ timers # <<>>
  /\ Step([This EXCEPT !.currentState = Head(timers), !.timers = Tail(timers)],
          "timer", <<>>, FALSE)
  /\ UNCHANGED <<td, src, hidden, pending, userCmd>>

\* an intermission callback runs: this._lottieInstance?.play()
RestartFire ==
  /\ restarts > 0
  /\ Step([This EXCEPT !.restarts = @ - 1,
                       !.lottieInstance.isPaused =
                          IF lottieInstance.isNull THEN @ ELSE FALSE],
          "restart", <<>>, FALSE)
  /\ UNCHANGED <<td, src, hidden, pending, userCmd>>

Destroy ==
  /\ Step(destroy(This), "destroy", <<>>, FALSE)
  /\ UNCHANGED <<td, src, hidden, pending, userCmd>>

\* reload(), up to the await in its load(this.src); at most one load of a
\* source is in flight
Reload ==
  LET loads == reloads(This, src) /\ shadowRoot
  IN  /\ loads => Get(src) \notin pending /\ Cardinality(pending) < MaxPending
      /\ pending' = IF loads THEN pending \cup {Get(src)} ELSE pending
      /\ Step(reload(This), "reload", <<>>, FALSE)
      /\ UNCHANGED <<td, src, hidden, userCmd>>

TogglePlay ==
  /\ Step(togglePlay(This), "togglePlay", <<>>, FALSE)
  /\ userCmd' = IF currentState = "playing" THEN "pause" ELSE "play"
  /\ UNCHANGED <<td, src, hidden, pending>>

NextAnimation ==
  /\ currentAnimation < MaxIndex
  /\ Step(next(This), "next", <<>>, FALSE)
  /\ UNCHANGED <<td, src, hidden, pending, userCmd>>

PrevAnimation ==
  /\ currentAnimation > -MaxIndex
  /\ Step(prev(This), "prev", <<>>, FALSE)
  /\ UNCHANGED <<td, src, hidden, pending, userCmd>>

(***************************************************************************)
(* The engine, as far as the component's listeners see it                  *)
(***************************************************************************)
Listening ==
  /\ ~lottieInstance.isNull
  /\ ~lottieInstance.destroyed
  /\ lottieInstance.isLoaded
  /\ lottieInstance.listeners

Playing == Listening /\ ~lottieInstance.isPaused

\* the engine enters a frame: the next one while it plays, the one it was
\* sent to otherwise
EngineEnterFrame(frames) ==
  \E f \in (IF Playing THEN frames ELSE {lottieInstance.currentFrame}) :
    /\ Listening
    /\ Step(enterFrame([This EXCEPT !.lottieInstance.currentFrame = f]),
            "enterFrame", <<>>, FALSE)
    /\ UNCHANGED <<td, src, hidden, pending, userCmd>>

\* the engine reaches the end with looping off: it pauses and fires 'complete'
EngineComplete ==
  /\ Playing
  /\ ~lottieInstance.loop
  /\ Step(complete([This EXCEPT
                      !.lottieInstance.isPaused = TRUE,
                      !.lottieInstance.currentFrame =
                         IF lottieInstance.playDirection = 1
                         THEN (lottieInstance.totalFrames - 1) * 100 ELSE 0]),
          "complete", <<>>, FALSE)
  /\ UNCHANGED <<td, src, hidden, pending, userCmd>>

\* the engine reaches the end with looping on and fires 'loopComplete'
EngineLoopComplete ==
  /\ Playing
  /\ lottieInstance.loop
  /\ loopEvents < MaxLoopEvents
  /\ Step(loopComplete(This), "loopComplete", <<>>, count # 0)
  /\ UNCHANGED <<td, src, hidden, pending, userCmd>>

(***************************************************************************)
(* Specifications                                                          *)
(***************************************************************************)
GoodDoc(frames) ==
  [fields |-> Mandatory, assets |-> Null, frames |-> frames, renders |-> TRUE]

Object(doc) == [kind |-> "object", value |-> doc]

\* not yet connected, nothing loading, no src attribute
Detached == shadowRoot = FALSE /\ pending = {} /\ src = Null

\* the element as constructed (lines 58-198)
InitComponent ==
  /\ currentState = "loading"
  /\ playerState = [prev |-> "loading", count |-> 0]
  /\ lottieInstance = NoInstance
  /\ seeker = 0
  /\ animations = <<>>
  /\ currentAnimation = 0
  /\ errorMessage = "Something went wrong"
  /\ timers = <<>>
  /\ restarts = 0
  /\ events = <<>>
  /\ hidden = FALSE
  /\ logged = <<>>
  /\ loadError = Null
  /\ lastCall = [op |-> "new", arg |-> <<>>]
  /\ userCmd = "none"
  /\ loopEvents = 0

\* The controls: one document, the playback commands, the seeker being
\* grabbed, the page being hidden and the element scrolling in and out of view.
PlayerSources == {Object(GoodDoc(SampleFrames)), [kind |-> "invalid"]}

Init ==
  /\ InitComponent
  /\ Detached
  /\ td = TRUE
  /\ count = 0
  /\ mode = "normal"
  /\ loop = FALSE
  /\ direction = 1
  /\ autoplay \in BOOLEAN

Next ==
  \/ Connect
  \/ LoadCall(PlayerSources)
  \/ LoadResume
  \/ Play
  \/ Pause
  \/ Stop
  \/ SeekerMouseDown
  \/ VisibilityChange
  \/ Intersection
  \/ TimerFire
  \/ EngineComplete

Spec == Init /\ [][Next]_vars

\* Looping: a document played in a loop, with and without a count, in both
\* modes.
InitLoop ==
  /\ InitComponent
  /\ Detached
  /\ td = TRUE
  /\ count \in {0, 3}
  /\ mode \in {"normal", "bounce"}
  /\ loop = TRUE
  /\ direction \in {1, -1}
  /\ autoplay = TRUE

NextLoop ==
  \/ Connect
  \/ LoadCall({Object(GoodDoc(SampleFrames))})
  \/ LoadResume
  \/ Play
  \/ Pause
  \/ Stop
  \/ TimerFire
  \/ RestartFire
  \/ EngineComplete
  \/ EngineLoopComplete

SpecLoop == InitLoop /\ [][NextLoop]_vars

\* Seeking: documents of two lengths, sought by string, by the slider, and
\* while the engine reports frames.
SeekChars == {"0", "5", "%", "-", ".", "a"}

\* every string of up to MaxSeekLen characters
SeekStrings == UNION {[1..n -> SeekChars] : n \in 0..MaxSeekLen}

SeekSamples == {<<"5", "0", "%">>, <<"5">>, <<"0", ".", "5">>}

SeekSources == {Object(GoodDoc(SampleFrames)), Object(GoodDoc(7))}

SliderSamples == {29, 50}

\* the element connected, with the load of a document in flight
InitSeek ==
  /\ InitComponent
  /\ \E source \in SeekSources :
       pending = {source} /\ shadowRoot = TRUE /\ src = Null
  /\ td = TRUE
  /\ count = 0
  /\ mode = "normal"
  /\ loop = FALSE
  /\ direction = 1
  /\ autoplay = FALSE

NextSeek ==
  \/ LoadResume
  \/ Play
  \/ SeekerMouseDown
  \/ TimerFire
  \/ Seek(SeekSamples)
  \/ EngineEnterFrame({50 * lottieInstance.totalFrames})

SpecSeek == InitSeek /\ [][NextSeek]_vars

\* Loading: every kind of source, good and bad.
MissingField(f) == [GoodDoc(SampleFrames) EXCEPT !.fields = Mandatory \ {f}]

NoRender == [GoodDoc(SampleFrames) EXCEPT !.renders = FALSE]

Image(p) ==
  [has |-> {"id", "w", "h", "p", "u", "e"}, p |-> p, e |-> 0, u |-> "images/",
   inlined |-> 0]

Audio(p) ==
  [has |-> {"id", "p", "u", "e"}, p |-> p, e |-> 0, u |-> "audio/",
   inlined |-> 0]

\* a precomposition: an asset with layers, neither image nor audio
Precomp == [has |-> {"id"}, p |-> <<>>, e |-> 0, u |-> "", inlined |-> 0]

WithAssets(assets) == [GoodDoc(SampleFrames) EXCEPT !.assets = Some(assets)]

Response(ok, status, statusText, json, zip) ==
  [ok |-> ok, status |-> status, statusText |-> statusText, json |-> json,
   zip |-> zip]

Url(url, resp) == [kind |-> "url", url |-> url, resp |-> resp]

Archive(manifest, anims, media) ==
  [manifest |-> manifest, animations |-> anims, media |-> media]

Manifest(ids) == Some([animations |-> ids])

PngEntry == <<"images", "/", "a", ".", "png">>
Mp3Entry == <<"audio", "/", "b", ".", "mp3">>

SampleMedia == (PngEntry :> "img1") @@ (Mp3Entry :> "snd1")

SampleAssets == <<Image(<<"a", ".", "png">>), Audio(<<"b", ".", "mp3">>), Precomp>>

Archives ==
  {Archive(Null, ("a" :> GoodDoc(SampleFrames)), SampleMedia),
   Archive(Manifest(Null), ("a" :> GoodDoc(SampleFrames)), SampleMedia),
   Archive(Manifest(Some(<<>>)), ("a" :> GoodDoc(SampleFrames)), SampleMedia),
   Archive(Manifest(Some(<<"a">>)), ("a" :> WithAssets(SampleAssets)), SampleMedia),
   Archive(Manifest(Some(<<"a", "b">>)), ("a" :> GoodDoc(SampleFrames)), SampleMedia),
   Archive(Manifest(Some(<<"a", "b">>)),
           ("a" :> GoodDoc(SampleFrames)) @@ ("b" :> WithAssets(SampleAssets)),
           SampleMedia),
   Archive(Manifest(Some(<<"a">>)), ("a" :> MissingField("layers")), SampleMedia)}

JsonUrl   == <<"x", ".", "json">>
LottieUrl == <<"x", ".", "lottie">>

\* each mandatory field is missing from one of the sources
LoadSources ==
  {[kind |-> "invalid"], Object(GoodDoc(SampleFrames)), Object(NoRender),
   [kind |-> "array", value |-> <<GoodDoc(SampleFrames), MissingField("w")>>],
   Url(JsonUrl, Null), Url(JsonUrl, Some(Response(TRUE, 200, "OK", Null, Null))),
   Url(JsonUrl, Some(Response(TRUE, 200, "OK", Some(GoodDoc(SampleFrames)), Null))),
   Url(JsonUrl, Some(Response(TRUE, 200, "OK", Some(MissingField("fr")), Null))),
   Url(LottieUrl, Some(Response(TRUE, 200, "OK", Null, Null)))}
  \cup {Object(MissingField(f)) : f \in {"v", "ip", "op", "h"}}
  \cup {Url(JsonUrl, Some(Response(FALSE, 404, "Not Found", Null, Null))),
        Url(LottieUrl,
            Some(Response(FALSE, 500, "Internal Server Error", Null, Null)))}
  \cup {Url(LottieUrl, Some(Response(TRUE, 200, "OK", Null, Some(z)))) : z \in Archives}

\* the element as constructed, with its attributes set; direction = -1 only
\* matters to load() when autoplay is on (lines 280-281)
Configured ==
  /\ InitComponent
  /\ td \in BOOLEAN
  /\ count = 0
  /\ mode = "normal"
  /\ loop = FALSE
  /\ direction \in {1, -1}
  /\ autoplay \in BOOLEAN
  /\ direction = -1 => autoplay

InitLoad == Configured /\ Detached

NextLoad ==
  \/ Connect
  \/ LoadCall(LoadSources)
  \/ LoadResume
  \/ TimerFire

SpecLoad == InitLoad /\ [][NextLoad]_vars

\* Asset resolution: a bundle of one document whose assets are any list of
\* up to MaxAssets sample assets, over any choice of media entries.
AssetSamples ==
  {Image(<<"a", ".", "png">>), Audio(<<"b", ".", "mp3">>), Precomp,
   Image(<<"c", ".", "PNG">>), Audio(<<"a", ".", "png">>),
   [Image(<<"a", ".", "png">>) EXCEPT !.has = @ \cup {"xt"}]}

MediaEntries ==
  {PngEntry, Mp3Entry, <<"images", "/", "c", ".", "PNG">>,
   <<"images", "/", "b", ".", "mp3">>}

MediaOf(entries) ==
  [e \in entries |-> IF e[1] = "images" THEN "img1" ELSE "snd1"]

Bundle(assets, entries) ==
  Url(LottieUrl,
      Some(Response(TRUE, 200, "OK", Null,
             Some(Archive(Manifest(Some(<<"a">>)), ("a" :> WithAssets(assets)),
                          MediaOf(entries))))))

BundleSources ==
  {Bundle(assets, entries) :
     assets \in UNION {[1..n -> AssetSamples] : n \in 0..MaxAssets},
     entries \in SUBSET MediaEntries}

\* the element connected, with one load of a bundle in flight
InitAssets ==
  /\ Configured
  /\ \E source \in BundleSources :
       pending = {source} /\ shadowRoot = TRUE /\ src = Null

NextAssets == LoadResume \/ TimerFire

SpecAssets == InitAssets /\ [][NextAssets]_vars

\* Lifecycle: the element connected with a src attribute, whose first load
\* (firstUpdated, line 776) is in flight; the page toggles playback, steps
\* through the animations, destroys, reloads and loads again.
TwoDocs == [kind |-> "array", value |-> <<GoodDoc(SampleFrames), GoodDoc(7)>>]

LifeSources == {Object(GoodDoc(SampleFrames)), TwoDocs, [kind |-> "invalid"]}

InitLife ==
  /\ InitComponent
  /\ shadowRoot = TRUE
  /\ \E source \in LifeSources : src = Some(source) /\ pending = {source}
  /\ td = TRUE
  /\ count = 0
  /\ mode = "normal"
  /\ loop = FALSE
  /\ direction = 1
  /\ autoplay = TRUE

NextLife ==
  \/ LoadCall({Object(GoodDoc(SampleFrames))})
  \/ LoadResume
  \/ TogglePlay
  \/ NextAnimation
  \/ PrevAnimation
  \/ Destroy
  \/ Reload
  \/ TimerFire
  \/ EngineComplete

SpecLife == InitLife /\ [][NextLife]_vars

\* Resolution: what the resolver hands to load() for documents given in
\* memory and for bundles of one and two documents.
\* plain documents: complete, incomplete, with and without assets
PlainDocs ==
  {GoodDoc(SampleFrames), GoodDoc(7), NoRender, WithAssets(SampleAssets)}
  \cup {MissingField(f) : f \in Mandatory}

ResolveSources ==
  {Object(doc) : doc \in PlainDocs}
  \cup {Url(LottieUrl, Some(Response(TRUE, 200, "OK", Null, Some(z)))) :
          z \in {a \in Archives : a.manifest # Null}}

InitResolve == Configured /\ Detached /\ td = TRUE

NextResolve ==
  \/ Connect
  \/ LoadCall(ResolveSources)
  \/ LoadResume
  \/ TimerFire

SpecResolve == InitResolve /\ [][NextResolve]_vars

\* Scrubbing: a document loaded, played, paused and stopped, run to its end,
\* and sought by call and with the slider in each of the states this gives.
ScrubSamples == {<<"5">>, <<"5", "0", "%">>, <<"1", "5", "0">>, <<"a">>}

InitScrub ==
  /\ InitComponent
  /\ shadowRoot = TRUE
  /\ src = Null
  /\ pending = {Object(GoodDoc(SampleFrames))}
  /\ td = TRUE
  /\ count = 0
  /\ mode = "normal"
  /\ loop = FALSE
  /\ direction = 1
  /\ autoplay = FALSE

NextScrub ==
  \/ LoadResume
  \/ Play
  \/ Pause
  \/ Stop
  \/ SeekerMouseDown
  \/ TimerFire
  \/ Seek(ScrubSamples)
  \/ SeekerChange(SliderSamples)
  \/ EngineEnterFrame({50 * lottieInstance.totalFrames})
  \/ EngineComplete

SpecScrub == InitScrub /\ [][NextScrub]_vars

\* Counting: a document looping toward a count of 3, in both modes, while the
\* page plays, pauses, stops and seeks and the seeker is grabbed.
InitCount ==
  /\ InitComponent
  /\ shadowRoot = TRUE
  /\ src = Null
  /\ pending = {Object(GoodDoc(SampleFrames))}
  /\ td = TRUE
  /\ count = 3
  /\ mode \in {"normal", "bounce"}
  /\ loop = TRUE
  /\ direction = 1
  /\ autoplay = TRUE

NextCount ==
  \/ LoadResume
  \/ Play
  \/ Pause
  \/ Stop
  \/ SeekerMouseDown
  \/ Seek({<<"5">>})
  \/ TimerFire
  \/ RestartFire
  \/ EngineLoopComplete

SpecCount == InitCount /\ [][NextCount]_vars

\* Classification: a bundle whose document has one asset, with every
\* combination of presence of the fields the classification looks at, over
\* archives that have the asset's file under images/, under audio/, under
\* both or under neither.
FieldCombinations ==
  {[has |-> h, p |-> <<"a", ".", "png">>, e |-> 0, u |-> "files/",
    inlined |-> 0] : h \in SUBSET AssetFields}

FolderEntries == {PngEntry, <<"audio", "/", "a", ".", "png">>}

ClassifySources ==
  {Bundle(<<asset>>, entries) :
     asset \in FieldCombinations, entries \in SUBSET FolderEntries}

InitClassify ==
  /\ Configured
  /\ td = TRUE
  /\ direction = 1
  /\ \E source \in ClassifySources :
       pending = {source} /\ shadowRoot = TRUE /\ src = Null

NextClassify == LoadResume \/ TimerFire

SpecClassify == InitClassify /\ [][NextClassify]_vars

\* Overlapping loads: the page called load(FirstRequested) and then
\* load(SecondRequested) before either fetch answered; the fetches answer in
\* either order while the page plays and pauses.
FirstRequested ==
  Url(<<"a", ".", "json">>,
      Some(Response(TRUE, 200, "OK", Some(GoodDoc(SampleFrames)), Null)))

SecondRequested ==
  Url(<<"b", ".", "json">>, Some(Response(TRUE, 200, "OK", Some(GoodDoc(7)), Null)))

InitRace ==
  /\ InitComponent
  /\ shadowRoot = TRUE
  /\ src = Null
  /\ pending = {FirstRequested, SecondRequested}
  /\ td = TRUE
  /\ count = 0
  /\ mode = "normal"
  /\ loop = FALSE
  /\ direction = 1
  /\ autoplay \in BOOLEAN

NextRace ==
  \/ LoadResume
  \/ Play
  \/ Pause
  \/ TimerFire
  \/ EngineComplete

SpecRace == InitRace /\ [][NextRace]_vars

(***************************************************************************)
(* Properties                                                              *)
(***************************************************************************)
Emitted(e, evs) == \E i \in 1..Len(evs) : evs[i] = e

\* C1: with count = 3 and looping on, the player is Completed by the count on
\* the 6th loop completion in bounce mode and on the 3rd in normal mode, and
\* not on an earlier one.
C1_LoopCountTermination ==
  (lastCall.op = "loopComplete" /\ count = 3) =>
    LET n == IF mode = "bounce" THEN 6 ELSE 3
        completedByCount == currentState = "completed" /\ events = <<"complete">>
    IN  /\ loopEvents < n => ~completedByCount
        /\ loopEvents = n => completedByCount

\* the state the latest playback call put, or is about to put, the player in
Intended == IF timers # <<>> THEN timers[Len(timers)] ELSE currentState

\* C2: after each play(), pause(), stop() or _freeze() on a loaded player the
\* recorded previous state is the state the preceding call put (or was about
\* to put) the player in, and a _freeze() that interrupts playback records
\* Playing.
C2_PrevRecorded ==
  [][(/\ lastCall'.op \in {"play", "pause", "stop", "_freeze"}
      /\ ~lottieInstance.isNull)
     => /\ playerState'.prev = Intended
        /\ (lastCall'.op = "_freeze" /\ ~lottieInstance.isPaused)
              => playerState'.prev = "playing"]_vars

\* C3: when the user's last playback command was pause(), neither a
\* visibility change nor an intersection change invokes play().
C3_NoResumeAfterUserPause ==
  [][(/\ lastCall'.op \in {"intersection", "_onVisibilityChange"}
      /\ userCmd = "pause")
     => ~Emitted("play", events')]_vars

\* the source of the load that the last step resumed
Loaded == lastCall.arg[1]

IsBundle(input) ==
  /\ input.kind = "url"
  /\ input.resp # Null
  /\ Get(input.resp).ok
  /\ input.url = LottieUrl
  /\ Get(input.resp).zip # Null

\* the documents a source delivers when nothing else fails
Delivered(input) ==
  IF input.kind = "object" THEN <<input.value>>
  ELSE IF input.kind = "array" THEN input.value
  ELSE IF input.url = JsonUrl THEN <<Get(Get(input.resp).json)>>
  ELSE LET z == Get(Get(input.resp).zip)
           ids == Get(Get(z.manifest).animations)
       IN  [i \in 1..Len(ids) |-> z.animations[ids[i]]]

\* a source whose loading fails: invalid input, a fetch that rejects or is
\* unsuccessful, a body that is neither JSON nor an archive, a bundle without
\* manifest, without animations or without a listed document
Undeliverable(input) ==
  \/ input.kind = "invalid"
  \/ /\ input.kind = "url"
     /\ \/ input.resp = Null
        \/ ~Get(input.resp).ok
        \/ input.url = JsonUrl /\ Get(input.resp).json = Null
        \/ input.url = LottieUrl /\ Get(input.resp).zip = Null
        \/ /\ IsBundle(input)
           /\ LET z == Get(Get(input.resp).zip)
              IN  \/ z.manifest = Null
                  \/ Get(z.manifest).animations = Null
                  \/ Get(Get(z.manifest).animations) = <<>>
                  \/ \E i \in 1..Len(Get(Get(z.manifest).animations)) :
                       Get(Get(z.manifest).animations)[i] \notin DOMAIN z.animations

\* ... or one of its documents lacks a mandatory field, or the engine cannot
\* set up the document to show
FailingSource(input, index) ==
  \/ Undeliverable(input)
  \/ \E i \in 1..Len(Delivered(input)) :
       Mandatory \ Delivered(input)[i].fields # {}
  \/ /\ index + 1 \in 1..Len(Delivered(input))
     /\ ~Delivered(input)[index + 1].renders

\* C4: a load of a failing source ends in the Error state with exactly one
\* Error event, and runs none of the steps that follow a successful load: no
\* listener is registered, no direction set, no seek, no play.
C4_LoadFailureRecovered ==
  [][(/\ lastCall'.op = "loadResume"
      /\ FailingSource(lastCall'.arg[1], currentAnimation))
     => /\ currentState' = "error"
        /\ events' = <<"error">>
        /\ loadError' # Null
        /\ lottieInstance' \in {lottieInstance,
                                [lottieInstance EXCEPT !.destroyed = TRUE]}
        /\ UNCHANGED <<timers, restarts, direction, seeker, playerState>>]_vars

C4_Witness ==
  /\ lastCall.op = "loadResume"
  /\ FailingSource(Loaded, currentAnimation)
  /\ currentState = "error"
  /\ ~lottieInstance.isNull
  /\ lottieInstance.listeners

UnsuccessfulFetch(input) ==
  input.kind = "url" /\ input.resp # Null /\ ~Get(input.resp).ok

\* C5: after a load whose fetch answered with an unsuccessful status, the
\* error reduced at the load boundary carries that status and its status text.
C5_TransportStatusSurfaced ==
  (lastCall.op = "loadResume" /\ UnsuccessfulFetch(Loaded)) =>
    /\ loadError # Null
    /\ Get(loadError).status = Get(Loaded.resp).status
    /\ Get(loadError).message = Get(Loaded.resp).statusText

\* C6: a bundle without a 'manifest.json' entry fails to load and the failure
\* reported is 'Manifest not found'.
C6_ManifestNotFound ==
  (/\ lastCall.op = "loadResume"
   /\ IsBundle(Loaded)
   /\ Get(Get(Loaded.resp).zip).manifest = Null)
  => /\ currentState = "error"
     /\ \/ Emitted("Manifest not found", logged)
        \/ errorMessage = "Manifest not found"

EmptyManifest(input) ==
  /\ IsBundle(input)
  /\ Get(Get(input.resp).zip).manifest # Null
  /\ Get(Get(Get(input.resp).zip).manifest).animations = Some(<<>>)

\* C7: a bundle whose manifest lists no animation fails to load with 'No
\* animations listed in manifest'; no document is taken from it, no engine
\* instance is made for it and nothing is played.
C7_NoAnimations ==
  [][(lastCall'.op = "loadResume" /\ EmptyManifest(lastCall'.arg[1]))
     => /\ logged' = <<"No animations listed in manifest">>
        /\ currentState' = "error"
        /\ ~Emitted("play", events')
        /\ UNCHANGED <<animations, lottieInstance, timers>>]_vars

C7_Witness ==
  /\ lastCall.op = "loadResume"
  /\ EmptyManifest(Loaded)
  /\ logged = <<"No animations listed in manifest">>
  /\ currentState = "error"

\* the assets of the bundle's document as parsed, and as load() stored them
ParsedAssets == Get(Get(Get(Loaded.resp).zip).animations["a"].assets)
StoredAssets == Get(animations[1].assets)
StoredMedia  == Get(Get(Loaded.resp).zip).media

Classified(asset) == isImage(asset) \/ isAudio(asset)

\* the archive has the entry that the asset's path names under its type
HasEntry(asset) ==
  \/ isImage(asset) /\ <<"images", "/">> \o asset.p \in DOMAIN StoredMedia
  \/ ~isImage(asset) /\ isAudio(asset)
       /\ <<"audio", "/">> \o asset.p \in DOMAIN StoredMedia

InlinedOnce(asset) ==
  /\ IsDataURI(asset.p)
  /\ asset.e = 1
  /\ asset.u = ""
  /\ asset.inlined = 1

BundleLoaded == lastCall.op = "loadResume" /\ IsBundle(Loaded)

\* C8 as stated: once a bundle is loaded, every image or audio asset of its
\* document has a data URI for path and is marked inlined exactly once,
\* whether or not the archive has an entry for it.
C8_EveryAssetInlined ==
  BundleLoaded =>
    \A i \in 1..Len(ParsedAssets) :
      Classified(ParsedAssets[i]) => InlinedOnce(StoredAssets[i])

\* C8, amended: every image or audio asset whose entry the archive has is
\* given a data URI and marked inlined exactly once; every other asset is
\* left as parsed.
C8_AssetsWithEntryInlined ==
  BundleLoaded =>
    /\ Len(StoredAssets) = Len(ParsedAssets)
    /\ \A i \in 1..Len(ParsedAssets) :
         IF Classified(ParsedAssets[i]) /\ HasEntry(ParsedAssets[i])
         THEN InlinedOnce(StoredAssets[i])
         ELSE StoredAssets[i] = ParsedAssets[i]

C8_Witness ==
  /\ BundleLoaded
  /\ Len(ParsedAssets) = 2
  /\ Classified(ParsedAssets[1]) /\ HasEntry(ParsedAssets[1])
  /\ InlinedOnce(StoredAssets[1])
  /\ Classified(ParsedAssets[2]) /\ ~HasEntry(ParsedAssets[2])
  /\ StoredAssets[2] = ParsedAssets[2]

InGrammar(str) ==
  \E n \in 1..Len(str) :
    /\ \A i \in 1..n : str[i] \in Digits
    /\ n = Len(str) \/ (n = Len(str) - 1 /\ str[Len(str)] = "%")

Grammatical == {v \in SeekStrings : InGrammar(v)}

Pow10(k) == CASE k = 0 -> 1 [] k = 1 -> 10 [] k = 2 -> 100 [] k = 3 -> 1000
              [] k = 4 -> 10000

RECURSIVE Decimal(_, _)
\* the number that the first n characters of a numeral denote
Decimal(str, n) ==
  IF n = 0 THEN 0
  ELSE DigitValue(str[1]) * Pow10(n - 1) + Decimal(Tail(str), n - 1)

\* the frame a seek argument of the grammar asks for, of T frames
Asked(str, T) ==
  IF str[Len(str)] = "%"
  THEN (T * Decimal(str, Len(str) - 1)) \div 100
  ELSE Decimal(str, Len(str))

C10_SeekIgnored ==
  LET this == This
  IN  \A v \in SeekStrings : ~InGrammar(v) => seek(this, v) = this

C10_Witness ==
  /\ lastCall = [op |-> "seek", arg |-> <<"0", ".", "5">>]
  /\ ~lottieInstance.isNull
  /\ currentState = "playing"
  /\ seeker = 5

\* C11: the resolver given a plain document object answers a list of exactly
\* that document, unmodified, with no manifest, and calls no fetch.
C11_PlainDocumentRoundTrip ==
  /\ \A doc \in PlainDocs :
       getAnimationData(Object(doc)) =
         [animations |-> Some(<<doc>>), manifest |-> Null, isDotLottie |-> Null,
          logged |-> <<>>, fetched |-> FALSE]
  /\ (lastCall.op = "loadResume" /\ Loaded.kind = "object")
       => /\ getAnimationData(Loaded).animations = Some(<<Loaded.value>>)
          /\ logged = <<>>
          /\ currentState # "error" => animations = <<Loaded.value>>

C11_Witness ==
  /\ lastCall.op = "loadResume"
  /\ Loaded.kind = "object"
  /\ animations = <<Loaded.value>>
  /\ ~lottieInstance.isNull
  /\ currentState # "error"

\* the frame goToAndStop(totalFrames * .99, true) sends the engine to
EndBoundary == lottieInstance.totalFrames * 99

\* C12: on a loop completion that does not end the looping, bounce mode
\* reverses the engine's direction and restarts from the opposite boundary,
\* normal mode keeps the direction and restarts from the same boundary, and
\* in both the engine is held stopped with one more restart waiting for the
\* intermission.
C12_LoopRestart ==
  [][(lastCall'.op = "loopComplete" /\ events' = <<"loop">>)
     => LET forward == lottieInstance.playDirection = 1
            engine  == lottieInstance'
        IN  /\ engine.isPaused
            /\ restarts' = restarts + 1
            /\ currentState' = currentState
            /\ IF mode = "bounce"
               THEN /\ engine.playDirection = -lottieInstance.playDirection
                    /\ engine.currentFrame =
                         IF forward THEN EndBoundary
                         ELSE lottieInstance.firstFrame
               ELSE /\ engine.playDirection = lottieInstance.playDirection
                    /\ engine.currentFrame =
                         IF forward THEN lottieInstance.firstFrame
                         ELSE EndBoundary]_vars

C12_Witness ==
  /\ lastCall.op = "loopComplete"
  /\ events = <<"loop">>
  /\ mode = "bounce"
  /\ lottieInstance.playDirection = 1
  /\ lottieInstance.currentFrame = lottieInstance.firstFrame
  /\ lottieInstance.isPaused
  /\ restarts = 1

\* the lifecycle event that announces a state
EventOf(state) ==
  CASE state = "playing"   -> "play"
    [] state = "paused"    -> "pause"
    [] state = "stopped"   -> "stop"
    [] state = "frozen"    -> "freeze"
    [] state = "completed" -> "complete"
    [] state = "error"     -> "error"
    [] state = "destroyed" -> "destroyed"
    [] OTHER               -> "none"

\* the operations a page can call on the element
PublicOps ==
  {"loadResume", "play", "pause", "stop", "seek", "togglePlay", "next", "prev",
   "destroy", "reload"}

\* C13: whenever a public operation changes currentState, it dispatches the
\* lifecycle event of the new state.
C13_StateChangeAnnounced ==
  [][(lastCall'.op \in PublicOps /\ currentState' # currentState)
     => Emitted(EventOf(currentState'), events')]_vars

\* C14: reload() on a player whose load failed, with src set, starts a new
\* load of src.
C14_ReloadAfterFailure ==
  [][(lastCall'.op = "reload" /\ currentState = "error" /\ src # Null)
     => Get(src) \in pending']_vars

\* the last step was a bundle's load getting through to the engine
BundleInstantiated ==
  /\ BundleLoaded
  /\ ~Emitted("error", events)
  /\ ~lottieInstance.isNull

\* an asset the archive has the entry of and that still has its file path
Unresolved(asset) ==
  Classified(asset) /\ HasEntry(asset) /\ ~IsDataURI(asset.p)

C16_DestroyedIsTerminal ==
  [][(/\ currentState = "destroyed"
      /\ lastCall'.op \in {"timer", "restart", "play", "pause", "stop", "seek",
                           "togglePlay", "next", "prev"})
     => /\ currentState' = "destroyed"
        /\ lottieInstance'.isNull]_vars

\* C17: whenever the player is Paused or Stopped by the user's pause() or
\* stop(), with no state update pending, the engine is not playing.
C17_UserPauseHolds ==
  (/\ userCmd \in {"pause", "stop"}
   /\ currentState = (IF userCmd = "pause" THEN "paused" ELSE "stopped")
   /\ timers = <<>>
   /\ ~lottieInstance.isNull)
  => lottieInstance.isPaused

\* C18: once both of two overlapping loads have finished, the player holds
\* and shows the document of the load requested last.
C18_LatestLoadWins ==
  pending = {} =>
    /\ animations = <<Get(Get(SecondRequested.resp).json)>>
    /\ lottieInstance.totalFrames = Get(Get(SecondRequested.resp).json).frames

\* C19: a Completed state set by the engine's 'complete' event is not
\* overwritten by a deferred state update that was scheduled before the event.
C19_CompletedNotOverwritten ==
  [][(/\ lastCall.op = "complete"
      /\ currentState = "completed"
      /\ lastCall'.op = "timer")
     => currentState' = "completed"]_vars

\* C20: after a load, a next() or a prev(), the current animation index is
\* the index of one of the loaded animations.
C20_IndexValid ==
  (lastCall.op \in {"loadResume", "next", "prev"} /\ animations # <<>>)
  => currentAnimation \in 0..(Len(animations) - 1)

\* the last step was a load getting through without an error
LoadSucceeded == lastCall.op = "loadResume" /\ ~Emitted("error", events)

\* C21: after a load has completed successfully, with no state update still
\* pending, currentState is not Error.
C21_LoadedNotError ==
  (LoadSucceeded /\ timers = <<>>) => currentState # "error"

\* the loop completion of this step brought the counter to or past the count
CountReached == count # 0 /\ playerState'.count >= 2 * count

\* C22: a loop completion that brings the counter to or past the configured
\* count switches looping off on the component and on the engine, sets
\* Completed and emits Complete once and nothing else, without changing the
\* direction or scheduling a restart; with count unset the counter never ends
\* the looping.
C22_CountEndsLooping ==
  [][lastCall'.op = "loopComplete"
     => /\ CountReached =>
             /\ ~loop' /\ ~lottieInstance'.loop
             /\ currentState' = "completed"
             /\ events' = <<"complete">>
             /\ lottieInstance'.playDirection = lottieInstance.playDirection
             /\ direction' = direction
             /\ restarts' = restarts
        /\ ~CountReached =>
             /\ loop' = loop /\ lottieInstance'.loop = lottieInstance.loop
             /\ currentState' = currentState
             /\ events' = <<"loop">>
        /\ count = 0 => playerState'.count = 0 /\ ~CountReached]_vars

C22_Witness ==
  /\ lastCall.op = "loopComplete"
  /\ count = 3
  /\ playerState.count >= 2 * count
  /\ currentState = "completed"
  /\ events = <<"complete">>
  /\ ~loop /\ ~lottieInstance.loop
  /\ restarts = 0

\* the step was a seek, by call or by the slider, whose argument matches, on
\* a player with an engine instance
MatchingSeek ==
  /\ ~lottieInstance.isNull
  /\ \/ lastCall'.op = "seek" /\ match(lastCall'.arg) # Null
     \/ lastCall'.op = "_handleSeekChange"

\* C23: a matching seek in Playing, or in Frozen with Playing recorded as the
\* previous state, goes on playing from the target frame and sets Playing; in
\* every other state it leaves the engine stopped at the target frame and
\* changes neither currentState nor the recorded previous state.
C23_SeekKeepsPlayback ==
  [][MatchingSeek
     => /\ lottieInstance'.currentFrame = seeker' * 100
        /\ timers' = timers
        /\ IF \/ currentState = "playing"
              \/ currentState = "frozen" /\ playerState.prev = "playing"
           THEN /\ ~lottieInstance'.isPaused
                /\ currentState' = "playing"
           ELSE /\ lottieInstance'.isPaused
                /\ currentState' = currentState
                /\ playerState' = playerState]_vars

C23_Witness ==
  /\ lastCall.op = "seek"
  /\ lastCall.arg = <<"5">>
  /\ currentState = "paused"
  /\ playerState.prev = "playing"
  /\ lottieInstance.isPaused
  /\ lottieInstance.currentFrame = 500
  /\ timers = <<>>

\* C24: the seek position, which the 0-100 slider shows and Frame events
\* report, is always within 0..100.
C24_SeekerIsPercentage == seeker \in 0..100

\* C25: while the player has an engine instance, the component's direction
\* property equals the engine's play direction.
C25_DirectionMatchesEngine ==
  ~lottieInstance.isNull => direction = lottieInstance.playDirection

\* C26: stop() on a player with an engine instance resets the loop counter to
\* 0; play(), pause(), _freeze(), seek and the deferred callbacks leave it as
\* it is; and nothing but a stop() ever takes the counter back.
C26_OnlyStopResetsCount ==
  [][/\ (lastCall'.op = "stop" /\ ~lottieInstance.isNull)
          => playerState'.count = 0
     /\ lastCall'.op \in {"play", "pause", "_freeze", "seek", "timer", "restart"}
          => playerState'.count = playerState.count
     /\ playerState'.count < playerState.count => lastCall'.op = "stop"
     /\ playerState'.count > playerState.count
          => lastCall'.op = "loopComplete"]_vars

C26_Witness ==
  /\ lastCall.op = "stop"
  /\ count = 3
  /\ playerState.count = 0
  /\ playerState.prev = "paused"
  /\ restarts = 1
  /\ ~lottieInstance.isNull

\* the asset rewritten from the archive entry of the given folder
InlinedFrom(folder, parsed, stored) ==
  /\ EntryName(folder, parsed.p) \in DOMAIN StoredMedia
  /\ IsDataURI(stored.p)
  /\ stored.p[4] = btoa(StoredMedia[EntryName(folder, parsed.p)])
  /\ stored.inlined = 1

\* C27: no combination of presence of w, h, p, e, u, id, xt makes an asset
\* both image and audio; an asset that is neither is left exactly as parsed;
\* an image is rewritten only from its entry under images/ and an audio only
\* from its entry under audio/, and left as parsed when that entry is absent.
C27_ClassificationExclusive ==
  /\ \A h \in SUBSET AssetFields :
       ~(isImage([has |-> h]) /\ isAudio([has |-> h]))
  /\ BundleLoaded =>
       LET parsed == ParsedAssets[1]
           stored == StoredAssets[1]
       IN  /\ ~Classified(parsed) => stored = parsed
           /\ isImage(parsed) =>
                \/ InlinedFrom("images", parsed, stored)
                \/ /\ EntryName("images", parsed.p) \notin DOMAIN StoredMedia
                   /\ stored = parsed
           /\ isAudio(parsed) =>
                \/ InlinedFrom("audio", parsed, stored)
                \/ /\ EntryName("audio", parsed.p) \notin DOMAIN StoredMedia
                   /\ stored = parsed

C27_Witness ==
  /\ BundleLoaded
  /\ isImage(ParsedAssets[1])
  /\ "id" \notin ParsedAssets[1].has
  /\ DOMAIN StoredMedia = {<<"audio", "/", "a", ".", "png">>}
  /\ StoredAssets[1] = ParsedAssets[1]

====
